---- MODULE Spec2Model ----
(***************************************************************************)
(* Model of the AI generation dialog (AIGenerationModal) of ebook-pro, of  *)
(* the two route handlers it calls (generate-outline, generate-content)    *)
(* and of the page table they write.                                       *)
(*                                                                         *)
(* The browser runs one task at a time: a click handler, a timer callback  *)
(* or the continuation of an awaited fetch runs to its next await without  *)
(* interleaving, and the state setters it calls are applied as one batch.  *)
(* Each such task is one action.  AbortController.abort() rejects the      *)
(* pending fetch synchronously; the catch block of handleGenerate then     *)
(* runs as a microtask, before any other task: it is the action            *)
(* AbortRejection, and every other browser action is disabled while a      *)
(* rejection is pending.  The route handlers run on the server, step by    *)
(* step at their awaits, concurrently with the browser and with each       *)
(* other; aborting a fetch does not stop the handler that serves it.       *)
(***************************************************************************)
EXTENDS Integers, Sequences, FiniteSets, TLC

\* ---------------------------------------------------------------- bounds
\* number of handleGenerate invocations explored
MaxRuns == 2
\* longest outline the model lets the LLM return
MaxLen == 2
\* page rows the sidebar scenario creates, the seed page included
MaxPages == 3
\* server action calls of the sidebar in flight at once
MaxCalls == 2
\* clicks on the sidebar explored
MaxClicks == 5
\* longest outline of the run looked at by itself
MaxSections == 16
\* renders of Home, each with its getCurrentEbook call
MaxGets == 3

\* texts the user may type: sequences of characters
Descriptions == {<< >>, <<" ">>, <<"x">>}

\* section titles the LLM writes, by position
TitlePool == <<"A", "B", "C", "D", "E", "F">>

\* the outlines the LLM may return: up to MaxLen distinct titles, the last
\* of which may be the empty string (a falsy sectionTitle)
Outlines ==
  LET titled(n) == [k \in 1..n |-> TitlePool[k]]
  IN  {titled(n) : n \in 0..MaxLen} \cup
      {[titled(n) EXCEPT ![n] = ""] : n \in 1..MaxLen}

RECURSIVE Lcm1To(_)
Gcd(a, b) == CHOOSE d \in 1..a : a % d = 0 /\ b % d = 0
                 /\ \A e \in 1..a : (a % e = 0 /\ b % e = 0) => e <= d
Lcm1To(n) == IF n <= 1 THEN 1 ELSE LET l == Lcm1To(n - 1) IN (l * n) \div Gcd(l, n)

\* progress is a fraction; the model stores progress * Scale, an integer for
\* every outline length up to MaxLen
Scale == Lcm1To(MaxLen)

Runs == 1..MaxRuns
PageIds == 1..MaxPages
Gets == 1..MaxGets
NoController == 0

\* ------------------------------------------------------ pure helpers
\* String.prototype.trim on a sequence of characters
RECURSIVE TrimStart(_)
TrimStart(s) == IF s # << >> /\ Head(s) = " " THEN TrimStart(Tail(s)) ELSE s
RECURSIVE TrimEnd(_)
TrimEnd(s) == IF s # << >> /\ s[Len(s)] = " " THEN TrimEnd(SubSeq(s, 1, Len(s) - 1)) ELSE s
Trim(s) == TrimEnd(TrimStart(s))

\* JavaScript truthiness of a string (section titles are TLA+ strings, typed
\* texts are sequences of characters)
Truthy(title) == title # ""
TruthyText(text) == text # << >>

\* the label shown next to the progress bar: a tuple, so that the template
\* literal of the loop keeps its interpolated values
Step(text) == <<text>>
WritingStep(i, totalSections, title) == <<"Writing section", i + 1, totalSections, title>>

\* variant: the fraction is taken of the sections before this one
ProgressPercentZeroBased(i, totalSections) ==
  30 * Scale + (i * 65 * Scale) \div totalSections

\* const progressPercent = 30 + ((i + 1) / totalSections) * 65   (scaled)
ProgressPercent(i, totalSections) ==
  30 * Scale + ((i + 1) * 65 * Scale) \div totalSections

\* variant: the one-based section number is sent as sectionIndex
ContentBodyNextIndex(outlineData, i, description) ==
  [sectionTitle |-> outlineData[i + 1], sectionIndex |-> i + 1,
   totalSections |-> Len(outlineData), description |-> description]

\* body of the POST to /api/generate-content for loop index i
ContentBody(outlineData, i, description) ==
  [sectionTitle |-> outlineData[i + 1], sectionIndex |-> i,
   totalSections |-> Len(outlineData), description |-> description]

\* variant: the status of the response is not looked at
ThrowsNever(ok) == FALSE

\* if (!res.ok) throw new Error(...)
Throws(ok) == ~ok

\* variant: every fourth section is a cover
TemplateCoverEveryFourth(sectionIndex) ==
  IF sectionIndex % 4 = 0 THEN "cover-page" ELSE "text-only"

\* the template the section-content endpoint picks
Template(sectionIndex) ==
  IF sectionIndex = 0 THEN "cover-page"
  ELSE IF sectionIndex % 4 = 0 THEN "image-top"
  ELSE "text-only"

\* --------------------------------------------------- React state setters
InitModal ==
  [description |-> << >>, isGenerating |-> FALSE, stage |-> "idle", progress |-> 0,
   currentStep |-> Step(""), outline |-> << >>, abortController |-> NoController]

\* handleGenerate up to its first await
StartState(m, controller) ==
  [m EXCEPT !.isGenerating = TRUE, !.stage = "outline", !.progress = 10 * Scale,
            !.currentStep = Step("Creating outline..."), !.abortController = controller]

\* variant: the outline step reports 3 percent
OutlineStateThreePercent(m, outlineData) ==
  [m EXCEPT !.outline = outlineData, !.progress = 3 * Scale,
            !.currentStep = Step("Outline created! Generating content..."),
            !.stage = "expanding"]

\* handleGenerate after the outline response was read
OutlineState(m, outlineData) ==
  [m EXCEPT !.outline = outlineData, !.progress = 30 * Scale,
            !.currentStep = Step("Outline created! Generating content..."),
            !.stage = "expanding"]

\* variant: setStage("complete") is missing
CompleteStateNoStage(m) ==
  [m EXCEPT !.progress = 100 * Scale,
            !.currentStep = Step("Ebook generated successfully!")]

\* handleGenerate after the loop
CompleteState(m) ==
  [m EXCEPT !.progress = 100 * Scale, !.stage = "complete",
            !.currentStep = Step("Ebook generated successfully!")]

\* variant: the catch block tells a cancellation by the message only
IsCancellationByMessage(error) == error.message = "Generation cancelled"

\* the test of the catch block of handleGenerate
IsCancellation(error) == error.name = "AbortError" \/ error.message = "Generation cancelled"

\* variant: setStage("idle") is missing from the catch block
CatchStateKeepsStage(m, error) ==
  [m EXCEPT !.currentStep = IF IsCancellation(error) THEN Step("Generation cancelled")
                            ELSE Step("Error generating ebook. Please try again."),
            !.isGenerating = FALSE]

\* the catch block of handleGenerate
CatchState(m, error) ==
  [m EXCEPT !.currentStep = IF IsCancellation(error) THEN Step("Generation cancelled")
                            ELSE Step("Error generating ebook. Please try again."),
            !.isGenerating = FALSE, !.stage = "idle"]

\* handleCancel
CancelState(m) ==
  [m EXCEPT !.abortController = NoController, !.isGenerating = FALSE,
            !.stage = "idle", !.progress = 0, !.currentStep = Step("")]

\* handleClose, called with the isGenerating its closure captured
CloseState(m, isGenerating) ==
  [(IF isGenerating THEN CancelState(m) ELSE m)
     EXCEPT !.description = << >>, !.progress = 0, !.stage = "idle",
            !.currentStep = Step(""), !.outline = << >>]

\* the errors handleGenerate can catch
AbortError == [name |-> "AbortError", message |-> "The user aborted a request."]
CancelledError == [name |-> "Error", message |-> "Generation cancelled"]
OutlineError == [name |-> "Error", message |-> "Failed to generate outline"]
SectionError == [name |-> "Error", message |-> "Failed to generate section"]
TransportError == [name |-> "TypeError", message |-> "Failed to fetch"]

\* ----------------------------------------------------------------- state
VARIABLES
  modal,        \* React state of AIGenerationModal
  aiModalOpen,  \* EbookBuilder state: the dialog is shown
  nruns,        \* handleGenerate invocations so far; run r owns controller r
  run,          \* per invocation: position, locals and the requests it issued
  aborted,      \* controllers whose signal is aborted
  fetches,      \* pending fetch promises of the browser
  microtasks,   \* rejections of aborted fetches not yet handled
  timers,       \* runs whose setTimeout callback is pending
  reloading,    \* window.location.reload() was called, the document is still there
  server,       \* route handler invocations in progress or answered
  pages,        \* rows of the page table of the ebook
  apiKey,       \* process.env.OPENAI_API_KEY is set
  earlyReturned, \* the last handleGenerate invocation returned at its first line
  pageRows,     \* PagesSidebar scenario: rows (id, order) of the page table
  nextId,       \* the id the next created row gets
  ebookPages,   \* EbookBuilder state ebook.pages, as the list of page ids
  pageOrder,    \* the order field of the client's page objects, by id
  selectedPageId, \* EbookBuilder state
  loading,      \* PagesSidebar state
  calls,        \* server action calls of the sidebar in flight
  sections,     \* section-content calls a generation run has still to make
  nclicks,      \* clicks on the sidebar so far
  imagePanelOpen,    \* EbookBuilder state
  settingsPanelOpen, \* EbookBuilder state
  settingsPanelType, \* EbookBuilder state
  logoSelectionMode, \* EbookBuilder state
  pageData,     \* imageUrl and customStyles of the client's page objects, by id
  openedBy,     \* the handler that opened the image panel last
  sectionRun,   \* one run by itself: outline length, next sectionIndex, pages created
  ebookRows,    \* rows of the ebook table, each with its pages
  themeRows,    \* names of the rows of the theme table
  gets          \* getCurrentEbook calls: position and the ebook found or returned

sidebarVars ==
  <<pageRows, nextId, ebookPages, pageOrder, selectedPageId, loading, calls, sections,
    nclicks>>

\* the state of the components other than the generation dialog
builderVars ==
  <<imagePanelOpen, settingsPanelOpen, settingsPanelType, logoSelectionMode, pageData,
    openedBy>>

homeVars == <<ebookRows, themeRows, gets>>

componentVars == <<sidebarVars, builderVars, sectionRun, homeVars>>

vars == <<modal, aiModalOpen, nruns, run, aborted, fetches, microtasks, timers,
          reloading, server, pages, apiKey, earlyReturned, componentVars>>

\* what only a direct invocation of handleGenerate records
sideVars == <<earlyReturned, componentVars>>

browserVars ==
  <<modal, aiModalOpen, nruns, run, aborted, fetches, microtasks, timers, reloading>>

\* failedAt: the request of the run that failed without an abort
NotFailed == -2
OutlineFailed == -1

\* pc, i, outlineData and description are the position and the locals of one
\* handleGenerate invocation; the other fields record what the run did:
\* the bodies it sent, how many section calls resolved with success, how it
\* ended, the resolved count and the stage when it was cancelled, and the
\* request that failed
NoRun ==
  [pc |-> "unstarted", i |-> 0, outlineData |-> << >>, description |-> << >>,
   issued |-> << >>, resolved |-> 0, outcome |-> "none", cancelK |-> -1,
   cancelStage |-> "none", failedAt |-> NotFailed]

Awaiting == {"awaitOutline", "awaitContent"}

\* the run is between its start and its end and has not been aborted
Active(r) == run[r].pc \in Awaiting /\ r \notin aborted
ActiveRuns == {r \in Runs : Active(r)}

\* a run that has ended keeps no locals: when the next run starts, what is
\* left of it is how it ended
Settled(rec) ==
  IF rec.pc \in Awaiting \/ rec.pc = "unstarted" THEN rec
  ELSE [NoRun EXCEPT !.pc = rec.pc, !.outcome = rec.outcome]

\* the page the seed gives a new ebook
SeedPage == [title |-> "Cover Page", order |-> 0, template |-> "cover-page", run |-> 0]

InitDialog ==
  /\ modal = InitModal
  /\ aiModalOpen = FALSE
  /\ nruns = 0
  /\ run = [r \in Runs |-> NoRun]
  /\ aborted = {}
  /\ fetches = {}
  /\ microtasks = << >>
  /\ timers = {}
  /\ reloading = FALSE
  /\ server = {}
  /\ pages = {SeedPage}
  /\ apiKey \in BOOLEAN
  /\ earlyReturned = FALSE

\* page ids are cuid strings; the model numbers them in creation order
NoPage == 0

\* the builder as Home renders it for a new ebook: the seed page, selected
InitSidebar ==
  /\ pageRows = {[id |-> 1, order |-> 0]}
  /\ nextId = 2
  /\ ebookPages = <<1>>
  /\ pageOrder = [id \in PageIds |-> 0]
  /\ selectedPageId = 1
  /\ loading = FALSE
  /\ calls = << >>
  /\ sections = << >>
  /\ nclicks = 0

\* a field that is not set
None == "none"

\* a page as the seed and createPage make it
NoBranding ==
  [set |-> FALSE, enabled |-> FALSE, type |-> None, logoUrl |-> None, position |-> None]
NoStyles == [set |-> FALSE, branding |-> NoBranding]
PlainPage == [imageUrl |-> None, customStyles |-> NoStyles]

\* the panels of a new EbookBuilder
InitPanels ==
  /\ imagePanelOpen = FALSE
  /\ settingsPanelOpen = FALSE
  /\ settingsPanelType = "theme"
  /\ logoSelectionMode = FALSE
  /\ openedBy = None

\* no run looked at by itself
NoSectionRun == [length |-> 0, next |-> 0, pages |-> {}]

\* the ebook getCurrentEbook creates; id stands for the generated id
DefaultEbook(id) ==
  [id |-> id, title |-> "My Ebook", theme |-> "Modern",
   pages |-> {[title |-> "Cover Page", template |-> "cover-page", order |-> 0]}]

NoEbook == 0
NoGet == [pc |-> "unstarted", ebook |-> NoEbook]

\* the tables after the first render of Home, which has created the ebook
InitHome ==
  /\ ebookRows = {DefaultEbook(1)}
  /\ themeRows = {"Modern"}
  /\ gets = [c \in Gets |-> IF c = 1 THEN [pc |-> "returned", ebook |-> 1] ELSE NoGet]

Init ==
  /\ InitDialog
  /\ InitSidebar
  /\ InitPanels
  /\ pageData = [id \in PageIds |-> PlainPage]
  /\ sectionRun = NoSectionRun
  /\ InitHome

\* ------------------------------------------------------------- network
Fetch(r, kind, index) == [run |-> r, kind |-> kind, index |-> index]
FetchOf(h) == Fetch(h.run, h.kind, h.index)

Handler(r, kind, index, body) ==
  [run |-> r, kind |-> kind, index |-> index, body |-> body,
   phase |-> "pending", status |-> 0, outline |-> << >>]

\* the handler returns a response: it is kept until the browser reads it,
\* and discarded when no fetch is waiting for it any more
Respond(srv, h, status, outline, pending) ==
  IF FetchOf(h) \in pending
  THEN (srv \ {h}) \cup {[h EXCEPT !.phase = "done", !.status = status, !.outline = outline]}
  ELSE srv \ {h}

\* responses nobody waits for are dropped
Undelivered(srv, pending) == {h \in srv : h.phase = "done" => FetchOf(h) \in pending}

\* --------------------------------------------------- browser: user events
\* no rejection is waiting for its catch block: the next task may start
Idle == microtasks = << >>

\* Header button: onOpenAIModal
OpenModal ==
  /\ Idle
  /\ ~aiModalOpen
  /\ aiModalOpen' = TRUE
  /\ UNCHANGED <<sideVars, reloading, modal, nruns, run, aborted, fetches, microtasks, timers,
                 server, pages, apiKey>>

\* Textarea onChange; the form is rendered when !isGenerating
SetDescription ==
  /\ Idle
  /\ aiModalOpen
  /\ ~modal.isGenerating
  /\ \E d \in Descriptions \ {modal.description} :
       modal' = [modal EXCEPT !.description = d]
  /\ UNCHANGED <<sideVars, reloading, aiModalOpen, nruns, run, aborted, fetches, microtasks, timers,
                 server, pages, apiKey>>

\* variant: the form stays rendered during a run
GenerateEnabledWhileRunning(m) == Trim(m.description) # << >>

\* the Generate button is rendered when !isGenerating and is disabled for a
\* description that trims to nothing
GenerateEnabled(m) == ~m.isGenerating /\ Trim(m.description) # << >>

\* variant: the description is tested without trim()
EarlyReturnUntrimmed(m) == ~TruthyText(m.description)

\* if (!description.trim()) return
EarlyReturn(m) == ~TruthyText(Trim(m.description))

\* handleGenerate past its early return, up to the first await
StartRun ==
  /\ nruns < MaxRuns
  /\ LET r == nruns + 1 IN
       /\ nruns' = r
       /\ modal' = StartState(modal, r)
       /\ run' = [q \in Runs |->
                    IF q = r
                    THEN [NoRun EXCEPT !.pc = "awaitOutline",
                                       !.description = modal.description,
                                       !.outcome = "running"]
                    ELSE Settled(run[q])]
       /\ fetches' = fetches \cup {Fetch(r, "outline", 0)}
       /\ server' = server \cup
            {Handler(r, "outline", 0, [description |-> modal.description])}
  /\ UNCHANGED <<aiModalOpen, aborted, microtasks, timers, reloading, pages, apiKey>>

\* handleGenerate, from the click on the enabled button to the first await
HandleGenerate ==
  /\ Idle
  /\ aiModalOpen
  /\ GenerateEnabled(modal)
  /\ ~EarlyReturn(modal)
  /\ StartRun
  /\ UNCHANGED sideVars

\* handleGenerate invoked while the form is rendered, whatever the disabled
\* attribute of the button says: the early return is the only guard left
GenerateCall ==
  /\ Idle
  /\ aiModalOpen
  /\ ~modal.isGenerating
  /\ IF EarlyReturn(modal)
     THEN /\ earlyReturned' = TRUE
          /\ UNCHANGED <<modal, aiModalOpen, nruns, run, aborted, fetches,
                         microtasks, timers, reloading, server, pages, apiKey>>
     ELSE /\ StartRun
          /\ earlyReturned' = FALSE
  /\ UNCHANGED componentVars

\* variant: abort() is not called
AbortSignalLost(controller, signals) == signals

\* controller.abort(): the signal is set and the fetch that carries it rejects
AbortSignal(controller, signals) == signals \cup {controller}

\* the stage a run has set last, by its position
RunStage(pc) ==
  IF pc = "awaitOutline" THEN "outline"
  ELSE IF pc = "awaitContent" THEN "expanding"
  ELSE IF pc = "complete" THEN "complete" ELSE "idle"

\* the part of handleCancel that is not a state setter
DoAbort(controller) ==
  LET hit == {f \in fetches : f.run = controller} IN
  /\ aborted' = AbortSignal(controller, aborted)
  /\ fetches' = {f \in fetches : f.run \notin aborted'}
  /\ microtasks' = IF hit # {} /\ controller \in aborted'
                   THEN Append(microtasks, controller) ELSE microtasks
  /\ server' = Undelivered(server, fetches')
  /\ run' = [r \in Runs |->
               IF r = controller /\ run[r].cancelK = -1
               THEN [run[r] EXCEPT !.cancelK = run[r].resolved,
                                   !.cancelStage = RunStage(run[r].pc)]
               ELSE run[r]]

\* handleCancel; the Cancel Generation button is rendered when isGenerating
\* and is disabled in stage complete
HandleCancel ==
  /\ Idle
  /\ aiModalOpen
  /\ modal.isGenerating
  /\ modal.stage # "complete"
  /\ modal' = CancelState(modal)
  /\ IF modal.abortController # NoController
     THEN DoAbort(modal.abortController)
     ELSE UNCHANGED <<aborted, fetches, microtasks, server, run>>
  /\ UNCHANGED <<sideVars, reloading, aiModalOpen, nruns, timers, pages, apiKey>>

\* handleClose from the dialog (onOpenChange, or the Cancel button of the form)
HandleClose ==
  /\ Idle
  /\ aiModalOpen
  /\ modal' = CloseState(modal, modal.isGenerating)
  /\ aiModalOpen' = FALSE
  /\ IF modal.isGenerating /\ modal.abortController # NoController
     THEN DoAbort(modal.abortController)
     ELSE UNCHANGED <<aborted, fetches, microtasks, server, run>>
  /\ UNCHANGED <<sideVars, reloading, nruns, timers, pages, apiKey>>

\* ------------------------------------------- browser: handleGenerate resumed
\* variant: the catch block undoes the run, deleting the pages it created
CaughtWithRollback(r, rec, m, error, outcome) ==
  /\ modal' = CatchState(m, error)
  /\ run' = [run EXCEPT ![r] = [rec EXCEPT !.pc = "caught", !.outcome = outcome]]
  /\ pages' = {p \in pages : p.run # r}

\* the catch block, entered by run r with the given error: it sets the
\* label, isGenerating and stage, and calls no endpoint and no server action
Caught(r, rec, m, error, outcome) ==
  /\ modal' = CatchState(m, error)
  /\ run' = [run EXCEPT ![r] = [rec EXCEPT !.pc = "caught", !.outcome = outcome]]
  /\ pages' = pages

\* variant: the fetch is not awaited, the loop sends every remaining request
BatchRest(i, totalSections) == i..(totalSections - 1)

\* indices whose request one iteration sends before the loop awaits: the
\* fetch is awaited inside the loop, so an iteration sends its own only
Batch(i, totalSections) == {i}

\* the for loop of handleGenerate, entered at index i with the setters called
\* so far applied to m; pend and srv are the fetches and handlers left
LoopStep(r, rec, m, i, pend, srv) ==
  LET outlineData == rec.outlineData
      totalSections == Len(outlineData)
      batch == Batch(i, totalSections)
      first == i
      count == Cardinality(batch)
      bodies == [k \in 1..count |-> ContentBody(outlineData, first + k - 1, rec.description)]
  IN
  IF i < totalSections
  THEN IF r \in aborted
       THEN /\ Caught(r, [rec EXCEPT !.i = i], m, CancelledError, "cancelled")
            /\ fetches' = pend
            /\ server' = srv
            /\ UNCHANGED timers
       ELSE /\ modal' = [m EXCEPT !.currentStep =
                            WritingStep(i, totalSections, outlineData[i + 1])]
            /\ run' = [run EXCEPT ![r] = [rec EXCEPT !.pc = "awaitContent", !.i = i,
                                                     !.issued = rec.issued \o bodies]]
            /\ fetches' = pend \cup {Fetch(r, "content", j) : j \in batch}
            /\ server' = srv \cup
                 {Handler(r, "content", j, ContentBody(outlineData, j, rec.description)) :
                    j \in batch}
            /\ UNCHANGED <<timers, pages>>
  ELSE /\ modal' = CompleteState(m)
       /\ run' = [run EXCEPT ![r] = [rec EXCEPT !.pc = "complete", !.i = i,
                                                !.outcome = "complete"]]
       /\ timers' = timers \cup {r}
       /\ fetches' = pend
       /\ server' = srv
       /\ UNCHANGED pages

\* the outline response arrives: await fetch and await json resume
OutlineResponse ==
  /\ Idle
  /\ \E h \in server :
       /\ h.kind = "outline" /\ h.phase = "done"
       /\ FetchOf(h) \in fetches
       /\ run[h.run].pc = "awaitOutline"
       /\ LET r == h.run
              pend == fetches \ {FetchOf(h)}
              srv == server \ {h}
              rec == [run[r] EXCEPT !.failedAt = IF h.status = 200 THEN @ ELSE OutlineFailed]
          IN IF Throws(h.status = 200)
             THEN /\ Caught(r, rec, modal, OutlineError, "error")
                  /\ fetches' = pend
                  /\ server' = srv
                  /\ UNCHANGED timers
             ELSE LoopStep(r, [rec EXCEPT !.outlineData = h.outline],
                           OutlineState(modal, h.outline), 0, pend, srv)
  /\ UNCHANGED <<sideVars, reloading, aiModalOpen, nruns, aborted, microtasks, apiKey>>

\* the response for section h.index arrives
ContentResponse ==
  /\ Idle
  /\ \E h \in server :
       /\ h.kind = "content" /\ h.phase = "done"
       /\ FetchOf(h) \in fetches
       /\ run[h.run].pc = "awaitContent"
       /\ LET r == h.run
              i == h.index
              pend == fetches \ {FetchOf(h)}
              srv == server \ {h}
              rec == [run[r] EXCEPT !.failedAt = IF h.status = 200 THEN @ ELSE i,
                                    !.resolved = IF h.status = 200 THEN @ + 1 ELSE @]
          IN IF Throws(h.status = 200)
             THEN /\ Caught(r, rec, modal, SectionError, "error")
                  /\ fetches' = pend
                  /\ server' = srv
                  /\ UNCHANGED timers
             ELSE LoopStep(r, rec,
                           [modal EXCEPT !.progress =
                              ProgressPercent(i, Len(run[r].outlineData))],
                           i + 1, pend, srv)
  /\ UNCHANGED <<sideVars, reloading, aiModalOpen, nruns, aborted, microtasks, apiKey>>

\* a fetch fails in transport (TypeError); the request may never have
\* reached the route handler
NetworkFail ==
  /\ Idle
  /\ \E f \in fetches, lost \in BOOLEAN :
       /\ run[f.run].pc \in Awaiting
       /\ lost => \E h \in server : FetchOf(h) = f /\ h.phase = "pending"
       /\ Caught(f.run,
                 [run[f.run] EXCEPT !.failedAt =
                    IF f.kind = "outline" THEN OutlineFailed ELSE f.index],
                 modal, TransportError, "error")
       /\ fetches' = fetches \ {f}
       /\ server' = Undelivered({h \in server : ~(lost /\ FetchOf(h) = f)}, fetches')
  /\ UNCHANGED <<sideVars, reloading, aiModalOpen, nruns, aborted, microtasks, timers, apiKey>>

\* microtask: the await of an aborted fetch throws AbortError into the catch
AbortRejection ==
  /\ microtasks # << >>
  /\ LET r == Head(microtasks) IN
       /\ microtasks' = Tail(microtasks)
       /\ IF run[r].pc \in Awaiting
          THEN Caught(r, run[r], modal, AbortError, "cancelled")
          ELSE UNCHANGED <<modal, run, pages>>
  /\ UNCHANGED <<sideVars, reloading, aiModalOpen, nruns, aborted, fetches, timers, server, apiKey>>

\* the setTimeout callback of a completed run: handleClose of the render
\* that started the run (its isGenerating is false, so handleCancel is not
\* called), then window.location.reload(), which starts the navigation and
\* returns
TimerFire ==
  /\ Idle
  /\ \E t \in timers :
       /\ modal' = CloseState(modal, FALSE)
       /\ aiModalOpen' = FALSE
       /\ timers' = timers \ {t}
       /\ reloading' = TRUE
  /\ UNCHANGED <<sideVars, nruns, run, aborted, fetches, microtasks, server, pages,
                 apiKey>>

\* the component tree is mounted anew
Reload(m) == InitModal

\* the navigation started by reload() commits: the document is replaced,
\* its timers and pending fetches are gone, the dialog is mounted anew
Unload ==
  /\ Idle
  /\ reloading
  /\ modal' = Reload(modal)
  /\ aiModalOpen' = FALSE
  /\ timers' = {}
  /\ reloading' = FALSE
  /\ fetches' = {}
  /\ microtasks' = << >>
  /\ run' = [r \in Runs |->
               IF run[r].pc \in Awaiting
               THEN [run[r] EXCEPT !.pc = "unloaded", !.outcome = "unloaded"]
               ELSE run[r]]
  /\ server' = Undelivered(server, {})
  /\ UNCHANGED <<sideVars, nruns, aborted, pages, apiKey>>

\* ------------------------------------------------- server: generate-outline
\* variant: the deletion spares the cover page
DeleteAllPagesButCover(rows) == {p \in rows : p.order = 0}

\* deleteAllPages(ebookId): prisma.page.deleteMany
DeleteAllPages(rows) == {}

\* POST /api/generate-outline.  The handler has one effect others can see,
\* deleteAllPages, so the whole handler is one step taken at that point: the
\* two checks answer 400 and 500 before anything is deleted; a database error
\* is rethrown by deleteAllPages and answered 500; after the deletion the
\* completion yields an array of titles, or fails (API error, no content, bad
\* JSON, not an array) and is answered 500
OutlinePOST ==
  \E h \in server :
    /\ h.kind = "outline" /\ h.phase = "pending"
    /\ IF ~TruthyText(h.body.description)
       THEN /\ pages' = pages
            /\ server' = Respond(server, h, 400, << >>, fetches)
       ELSE IF ~apiKey
       THEN /\ pages' = pages
            /\ server' = Respond(server, h, 500, << >>, fetches)
       ELSE \/ /\ pages' = pages
               /\ server' = Respond(server, h, 500, << >>, fetches)
            \/ /\ pages' = DeleteAllPages(pages)
               /\ server' = Respond(server, h, 500, << >>, fetches)
            \/ /\ pages' = DeleteAllPages(pages)
               /\ \E o \in Outlines : server' = Respond(server, h, 200, o, fetches)
    /\ UNCHANGED <<sideVars, browserVars, apiKey>>

\* ------------------------------------------------- server: generate-content
\* variant: the row is stored with the one-based section number as order
NewPageOneBased(h) ==
  [title |-> h.body.sectionTitle, order |-> h.body.sectionIndex + 1,
   template |-> Template(h.body.sectionIndex), run |-> h.run]

\* the row prisma.page.create inserts.  run is not a column: it records the
\* run whose request created the row, and stands for the generated id (a run
\* sends each sectionIndex once, so run and order identify the row)
NewPage(h) ==
  [title |-> h.body.sectionTitle, order |-> h.body.sectionIndex,
   template |-> Template(h.body.sectionIndex), run |-> h.run]

\* POST /api/generate-content.  Its one visible effect is prisma.page.create,
\* the last thing before the success response: the checks answer 400 and 500,
\* a failed or empty completion and a database error are answered 500, and
\* none of these writes a row
ContentPOST ==
  \E h \in server :
    /\ h.kind = "content" /\ h.phase = "pending"
    /\ IF ~Truthy(h.body.sectionTitle)
       THEN /\ pages' = pages
            /\ server' = Respond(server, h, 400, << >>, fetches)
       ELSE IF ~apiKey
       THEN /\ pages' = pages
            /\ server' = Respond(server, h, 500, << >>, fetches)
       ELSE \/ /\ pages' = pages
               /\ server' = Respond(server, h, 500, << >>, fetches)
            \/ /\ pages' = pages \cup {NewPage(h)}
               /\ server' = Respond(server, h, 200, << >>, fetches)
    /\ UNCHANGED <<sideVars, browserVars, apiKey>>

\* ------------------------------------------------------------ specification
Next ==
  \/ OpenModal
  \/ SetDescription
  \/ HandleGenerate
  \/ HandleCancel
  \/ HandleClose
  \/ OutlineResponse
  \/ ContentResponse
  \/ NetworkFail
  \/ AbortRejection
  \/ TimerFire
  \/ Unload
  \/ OutlinePOST
  \/ ContentPOST

Spec == Init /\ [][Next]_vars

\* the dialog with handleGenerate invoked directly
NextCall ==
  \/ OpenModal
  \/ SetDescription
  \/ GenerateCall
  \/ HandleCancel
  \/ HandleClose
  \/ OutlineResponse
  \/ ContentResponse
  \/ NetworkFail
  \/ AbortRejection
  \/ TimerFire
  \/ Unload
  \/ OutlinePOST
  \/ ContentPOST

SpecCall == Init /\ [][NextCall]_vars

\* one step of the machinery that resolves network calls: a route handler
\* returns, the browser resumes the await a response has arrived for, or the
\* catch block takes a pending rejection
Resolve ==
  OutlinePOST \/ ContentPOST \/ OutlineResponse \/ ContentResponse \/ AbortRejection

\* every network call resolves: the server and the event loop do not stop
\* while one of them can take a step.  Nothing is assumed of the user, of
\* the timer, or of transport failures.
Fairness == WF_vars(Resolve)

SpecFair == Init /\ [][Next]_vars /\ Fairness

TypeOK ==
  /\ modal.stage \in {"idle", "outline", "expanding", "complete"}
  /\ modal.isGenerating \in BOOLEAN
  /\ modal.progress \in 0..(100 * Scale)
  /\ modal.outline \in Outlines
  /\ modal.abortController \in {NoController} \cup Runs
  /\ nruns \in 0..MaxRuns
  /\ aborted \subseteq Runs
  /\ \A r \in Runs : run[r].pc \in {"unstarted", "complete", "caught", "unloaded"} \cup Awaiting
  /\ earlyReturned \in BOOLEAN
  /\ reloading \in BOOLEAN

\* ------------------------------------------------------------------ claims
ContentFetches(r) == {f \in fetches : f.run = r /\ f.kind = "content"}
Ended(r) == run[r].pc \in {"complete", "caught", "unloaded"}
Latest(r) == r = nruns

\* the j-th body a run sent carries index j - 1, the title at that place of
\* the outline the endpoint returned, and the length of that outline
InOutlineOrder(r) ==
  \A j \in 1..Len(run[r].issued) :
    /\ j <= Len(run[r].outlineData)
    /\ run[r].issued[j].sectionIndex = j - 1
    /\ run[r].issued[j].sectionTitle = run[r].outlineData[j]
    /\ run[r].issued[j].totalSections = Len(run[r].outlineData)

\* C1: a run that ends in stage complete has sent exactly N section-content
\* requests for the outline of length N it received, the j-th with
\* sectionIndex j, sectionTitle outline[j] and totalSections N.
C1_CompleteRunSendsOutline ==
  \A r \in Runs :
    run[r].pc = "complete" =>
      /\ Len(run[r].issued) = Len(run[r].outlineData)
      /\ InOutlineOrder(r)

C1_Witness ==
  \E r \in Runs : run[r].pc = "complete" /\ Len(run[r].issued) = MaxLen /\ MaxLen >= 2

\* C2: section-content requests of a run go out in outline order and one at
\* a time: at most one is pending, and it is the one sent last.
C2_OneSectionAtATime ==
  \A r \in Runs :
    /\ Cardinality(ContentFetches(r)) <= 1
    /\ \A f \in ContentFetches(r) : f.index = Len(run[r].issued) - 1
    /\ \A j \in 1..Len(run[r].issued) : run[r].issued[j].sectionIndex = j - 1

C2_Witness ==
  \E r \in Runs : Fetch(r, "content", 1) \in fetches /\ run[r].resolved = 1

\* C3 as claimed: a run cancelled when k section calls had resolved has sent
\* exactly k section-content requests.
C3_CancelSentExactlyResolved ==
  \A r \in Runs : run[r].cancelK # -1 => Len(run[r].issued) = run[r].cancelK

\* C3 amended: a run cancelled when k section calls had resolved has sent
\* k + 1 requests if it was cancelled in stage expanding (the request for
\* index k is pending and is aborted) and k requests otherwise; it sends no
\* more afterwards, and the stage is idle until another run starts.
C3_CancelSentResolvedPlusPending ==
  \A r \in Runs :
    run[r].cancelK # -1 =>
      /\ Len(run[r].issued) =
           run[r].cancelK + (IF run[r].cancelStage = "expanding" THEN 1 ELSE 0)
      /\ ContentFetches(r) = {}
      /\ Latest(r) => modal.stage = "idle"

C3_Witness ==
  \E r \in Runs :
    /\ run[r].cancelK = 1 /\ run[r].cancelStage = "expanding"
    /\ run[r].pc = "caught" /\ Len(run[r].outlineData) >= 2

\* C4: after a cancellation the ebook has no page of the cancelled run other
\* than those whose section call had resolved before the cancellation.
C4_NoPageBeyondResolved ==
  \A r \in Runs : \A p \in pages :
    (p.run = r /\ run[r].cancelK # -1) => p.order < run[r].cancelK

\* C5: at most one run of the dialog is between its start and its end
\* (complete, or its catch block executed).
C5_AtMostOneRun ==
  Cardinality({r \in Runs : run[r].pc \in Awaiting}) <= 1

C5_Witness ==
  \E r \in Runs, q \in Runs :
    /\ q < r /\ run[r].pc = "awaitContent"
    /\ run[q].pc = "caught" /\ run[q].outcome = "cancelled"

\* C6: a run whose outline request failed (non-2xx or transport failure)
\* sends no section-content request and ends with stage idle.
C6_OutlineFailureSendsNothing ==
  \A r \in Runs :
    run[r].failedAt = OutlineFailed =>
      /\ run[r].issued = << >>
      /\ \A h \in server : h.run = r => h.kind = "outline"
      /\ Ended(r)
      /\ Latest(r) => modal.stage = "idle"

C6_Witness ==
  \E r \in Runs :
    /\ run[r].failedAt = OutlineFailed /\ run[r].pc = "caught"
    /\ modal.currentStep = Step("Error generating ebook. Please try again.")

\* C7: a run whose request for index i failed without an abort has sent no
\* request for an index above i and none for i again, and has ended with
\* stage idle.
C7_SectionFailureHalts ==
  \A r \in Runs :
    run[r].failedAt >= 0 =>
      /\ Len(run[r].issued) = run[r].failedAt + 1
      /\ InOutlineOrder(r)
      /\ Ended(r)
      /\ ContentFetches(r) = {}
      /\ Latest(r) => modal.stage = "idle"

C7_Witness ==
  \E r \in Runs :
    /\ run[r].failedAt = 0 /\ Len(run[r].outlineData) >= 2
    /\ run[r].pc = "caught"

\* C8: when handleGenerate is invoked again after an earlier run, progress
\* has been reset to 0 and the new run starts with an empty outline.
C8_RerunStartsFresh ==
  [][(nruns' = nruns + 1 /\ nruns >= 1)
       => (modal.progress = 0 /\ modal'.outline = << >>)]_vars

C10_HundredOnlyComplete ==
  modal.progress = 100 * Scale => modal.stage = "complete"

C10_Witness ==
  modal.progress = 100 * Scale /\ \E r \in Runs : run[r].pc = "complete" /\ r \in timers

\* the moves of stage the lifecycle allows
StageStep(a, b) ==
  \/ a = b
  \/ b = "idle"
  \/ a = "idle" /\ b = "outline"
  \/ a = "outline" /\ b = "expanding"
  \/ a = "expanding" /\ b = "complete"

\* C11: stage changes only along idle -> outline, outline -> expanding,
\* expanding -> complete, or from any stage back to idle: never from idle to
\* expanding or complete, never from outline to complete.
C11_StageOrder == [][StageStep(modal.stage, modal'.stage)]_vars

\* title and order of the rows of the page table
PageKeys(rows) == {[title |-> p.title, order |-> p.order] : p \in rows}

\* one row per entry of the outline, in its order
OutlineKeys(outlineData) ==
  {[title |-> outlineData[j + 1], order |-> j] : j \in 0..(Len(outlineData) - 1)}

\* C12: when a run reaches stage complete for an outline of length N, the
\* page table holds exactly N rows, titled outline[0..N-1] with order
\* 0..N-1: no row from before the run, none from an earlier cancelled run.
C12_CompletePagesAreOutline ==
  [][\A r \in Runs :
       (run[r].pc # "complete" /\ run'[r].pc = "complete") =>
         /\ Cardinality(pages') = Len(run'[r].outlineData)
         /\ PageKeys(pages') = OutlineKeys(run'[r].outlineData)]_vars

CancelledLabel == Step("Generation cancelled")
ErrorLabel == Step("Error generating ebook. Please try again.")

\* C13: the step that ends a run in its catch block leaves the label
\* "Generation cancelled" if the run was aborted by the user, and the label
\* "Error generating ebook. Please try again." if a call failed without an
\* abort, never the other one; stage is idle and isGenerating false from
\* then on until another run starts.
C13_EndLabels ==
  /\ [][\A r \in Runs :
          (run[r].pc \in Awaiting /\ run'[r].pc = "caught") =>
            /\ modal'.currentStep = IF r \in aborted THEN CancelledLabel ELSE ErrorLabel
            /\ r \notin aborted => run'[r].failedAt # NotFailed
            /\ modal'.stage = "idle" /\ ~modal'.isGenerating]_vars
  /\ [](\A r \in Runs :
          (run[r].pc = "caught" /\ Latest(r)) =>
            modal.stage = "idle" /\ ~modal.isGenerating)

C13_Witness ==
  /\ run[1].pc = "caught" /\ 1 \in aborted
  /\ run[2].pc = "caught" /\ 2 \notin aborted /\ run[2].failedAt >= 0
  /\ modal.currentStep = ErrorLabel

\* C14: handleGenerate invoked with a description that trims to nothing
\* starts no run and sends no request, and leaves isGenerating, stage,
\* progress, currentStep, outline and abortController as they were.
C14_BlankDescriptionIsNoOp ==
  [][Trim(modal.description) = << >> =>
       /\ nruns' = nruns
       /\ earlyReturned' # earlyReturned =>
            /\ earlyReturned'
            /\ modal' = modal /\ fetches' = fetches /\ server' = server]_vars

C14_Witness ==
  /\ earlyReturned /\ modal.description = <<" ">>
  /\ modal.currentStep = ErrorLabel /\ modal.outline # << >>
  /\ server = {} /\ fetches = {}

\* C15: stage leaves outline for expanding (or complete) only in the step
\* that reads a 200 outline response carrying a non-empty list of titles; an
\* empty list moves the run neither to expanding nor to complete.
C15_ExpandingNeedsTitles ==
  [][(modal.stage = "outline" /\ modal'.stage \in {"expanding", "complete"}) =>
       \E h \in server \ server' :
         /\ h.kind = "outline" /\ h.phase = "done" /\ h.status = 200
         /\ h.outline # << >>
         /\ modal'.outline = h.outline]_vars

\* C16: a request to the section-content endpoint answered with a success
\* status has created exactly one page, with title sectionTitle and order
\* sectionIndex; one answered 400 (no sectionTitle) or 500 (no API key, failed
\* completion, thrown error) has created none.  A handler whose request was
\* aborted adds that one page or nothing.
C16_PageIffSuccess ==
  [][\A h \in server \ server' :
       (h.kind = "content" /\ h.phase = "pending") =>
         LET row == [title |-> h.body.sectionTitle, order |-> h.body.sectionIndex]
             answers == {a \in server' \ server : FetchOf(a) = FetchOf(h)}
         IN  /\ pages \subseteq pages'
             /\ \/ pages' = pages
                \/ /\ Cardinality(pages') = Cardinality(pages) + 1
                   /\ PageKeys(pages' \ pages) = {row}
             /\ \A a \in answers :
                  /\ a.status \in {200, 400, 500}
                  /\ a.status = 200 <=> pages' # pages
                  /\ a.status = 400 <=> ~Truthy(h.body.sectionTitle)
                  /\ ~apiKey => a.status # 200]_vars

C16_Witness ==
  \E h \in server :
    /\ h.kind = "content" /\ h.phase = "done" /\ h.status = 500 /\ h.index = 1
    /\ run[h.run].resolved = 1
    /\ \E p \in pages : p.run = h.run /\ p.order = 0
    /\ ~\E p \in pages : p.run = h.run /\ p.order = 1

\* the rows a run created
PagesOf(r) == {p \in pages : p.run = r}

\* C17: a failure or a cancellation rolls nothing back.  The step in which a
\* run is cancelled, the step in which its catch block runs and the step in
\* which the content endpoint answers a failure leave the page table as it
\* is; the rows of a run that ended in its catch block stay as they are
\* until an outline request calls deleteAllPages.
C17_NoRollback ==
  [][/\ ((\E r \in Runs : run[r].pc \in Awaiting /\ run'[r].pc = "caught")
           \/ aborted' # aborted
           \/ (\E a \in server' \ server :
                 a.kind = "content" /\ a.phase = "done" /\ a.status # 200))
          => pages' = pages
     /\ \A r \in Runs :
          (run'[r].pc = "caught" /\ ~(PagesOf(r) \subseteq pages')) =>
            \E h \in server \ server' : h.kind = "outline" /\ h.phase = "pending"]_vars

C17_Witness ==
  \E r \in Runs :
    /\ run[r].pc = "caught" /\ run[r].failedAt = 1 /\ run[r].resolved = 1
    /\ \E p \in PagesOf(r) : p.order = 0 /\ p.title = run[r].outlineData[1]
    /\ server = {}

\* C18: once handleClose has run and the continuation of the run
\* it cancelled has finished (the dialog is closed, no rejection is
\* pending), stage is idle, progress 0, currentStep the empty string,
\* outline empty and isGenerating false.
C18_ClosedIsReset ==
  (~aiModalOpen /\ Idle) =>
    /\ modal.stage = "idle"
    /\ modal.progress = 0
    /\ modal.currentStep = Step("")
    /\ modal.outline = << >>
    /\ ~modal.isGenerating

\* C19: the auto-close and reload is scheduled only by the step that sets
\* progress to 100 and stage to complete, after every section call of the
\* run has succeeded; never by a run that was cancelled or that failed; and
\* once per run at most: a run that has completed never resumes.
C19_ReloadOnlyOnCompletion ==
  [][/\ \A r \in timers' \ timers :
          /\ run[r].pc \in Awaiting /\ run'[r].pc = "complete"
          /\ modal'.progress = 100 * Scale /\ modal'.stage = "complete"
          /\ run'[r].resolved = Len(run'[r].outlineData)
          /\ Len(run'[r].issued) = Len(run'[r].outlineData)
          /\ r \notin aborted' /\ run'[r].failedAt = NotFailed
     /\ \A r \in Runs :
          /\ (run[r].pc # "complete" /\ run'[r].pc = "complete") =>
               (r \notin timers /\ r \in timers')
          /\ run[r].pc \in {"complete", "caught", "unloaded"} => run'[r].pc = run[r].pc
          /\ run'[r].pc \in {"caught", "unloaded"} => r \notin timers']_vars

C19_Witness ==
  \E r \in timers :
    /\ run[r].pc = "complete" /\ run[r].resolved = MaxLen
    /\ \E q \in Runs : q < r /\ run[q].pc = "caught" /\ q \notin timers

\* the fetch run r waits for is pending before and after the step
StillPending(r) == \E f \in fetches : f.run = r /\ f \in fetches'

\* C20: while the fetch a run waits for stays pending (not resolved, not
\* failed, not aborted) the run stays where it is and stage does not change;
\* the step that ends a run leaves stage complete or idle; and when every
\* network call resolves, every started run ends: from a state with a run
\* between its start and its end, a state with none is reached.
C20_RunEnds ==
  /\ [][\A r \in Runs :
          /\ (run[r].pc \in Awaiting /\ StillPending(r)) =>
               (run'[r].pc = run[r].pc /\ modal'.stage = modal.stage)
          /\ (run[r].pc \in Awaiting /\ run'[r].pc \notin Awaiting) =>
               /\ Ended(r)'
               /\ modal'.stage = IF run'[r].pc = "complete" THEN "complete" ELSE "idle"]_vars
  /\ (\E r \in Runs : run[r].pc \in Awaiting) ~> (\A r \in Runs : run[r].pc \notin Awaiting)

\* C21 as claimed: during stage expanding progress is greater than 30 and at
\* most 95.
C21_ExpandingAboveThirty ==
  modal.stage = "expanding" =>
    (modal.progress > 30 * Scale /\ modal.progress <= 95 * Scale)

\* C21 amended: progress is 10 in stage outline, 30 in stage expanding until
\* the first section succeeds and 30 + (i+1)/N * 65 once section i has, so
\* that it is at least 30 and at most 95 during stage expanding; the value
\* computed for the last section is 95, and progress is 100 in stage
\* complete, which is entered only with all N sections resolved.
C21_ProgressValues ==
  /\ \A n \in 1..MaxLen : ProgressPercent(n - 1, n) = 95 * Scale
  /\ modal.stage = "outline" => modal.progress = 10 * Scale
  /\ modal.stage = "expanding" =>
       LET k == run[nruns].resolved
           N == Len(run[nruns].outlineData)
       IN  /\ run[nruns].pc = "awaitContent" /\ k < N
           /\ modal.progress = IF k = 0 THEN 30 * Scale ELSE ProgressPercent(k - 1, N)
           /\ modal.progress >= 30 * Scale /\ modal.progress <= 95 * Scale
  /\ modal.stage = "complete" =>
       /\ modal.progress = 100 * Scale
       /\ run[nruns].pc = "complete" =>
            run[nruns].resolved = Len(run[nruns].outlineData)

C21_Witness ==
  /\ modal.stage = "expanding" /\ modal.progress = 30 * Scale
  /\ run[nruns].pc = "awaitContent" /\ run[nruns].resolved = 0

\* the outline handlers that return in this step
OutlineReturns ==
  {h \in server \ server' :
     h.kind = "outline" /\ h.phase = "pending" /\ browserVars' = browserVars}

\* the request passes the two checks of the outline route
PassesValidation(h) == TruthyText(h.body.description) /\ apiKey

\* C22 as claimed: an outline request that passes validation leaves none of
\* the pages that existed, whether the outline is produced or the request
\* fails; one rejected by validation deletes nothing.
C22_ValidatedOutlineDeletes ==
  [][\A h \in OutlineReturns :
       pages' = IF PassesValidation(h) THEN {} ELSE pages]_vars

\* C22 amended: an outline request rejected by validation deletes nothing
\* and is not answered 200; one that passes validation leaves either no
\* page at all or, when deleteAllPages itself fails, every page, and in that
\* case it is answered 500; a request answered 200 has deleted every page.
C22_OutlineDeletesAllOrNothing ==
  [][\A h \in OutlineReturns :
       LET answers == {a \in server' \ server : FetchOf(a) = FetchOf(h)} IN
       /\ pages' = {} \/ pages' = pages
       /\ ~PassesValidation(h) => pages' = pages
       /\ \A a \in answers :
            /\ a.status \in {200, 400, 500}
            /\ a.status = 200 => (PassesValidation(h) /\ pages' = {})
            /\ (PassesValidation(h) /\ pages' # {}) => a.status = 500
            /\ ~PassesValidation(h) =>
                 a.status = IF TruthyText(h.body.description) THEN 500 ELSE 400]_vars

C22_Witness ==
  /\ apiKey /\ pages = {}
  /\ \E h \in server : h.kind = "outline" /\ h.phase = "done" /\ h.status = 500

\* C23: in every reachable state of the dialog isGenerating is true exactly
\* when stage is not idle, also after the auto-close timer of a completed
\* run has called handleClose.
C23_GeneratingIffNotIdle ==
  modal.isGenerating <=> modal.stage # "idle"

\* ------------------------------------------------------------ pages sidebar
\* PagesSidebar and the server actions it calls.  A click handler runs to
\* its await with the props of the render it was created in: the call it
\* makes keeps that render's ebook.pages and selectedPageId, and the code
\* after the await works on them.  The server actions run on the server,
\* step by step at their awaits; the router sends the server actions of
\* one document one after another, the next one when the result of the one
\* before has been taken.

dialogVars == <<browserVars, server, pages, apiKey, earlyReturned>>

\* what the sidebar and its server actions do not touch
outsideSidebar == <<dialogVars, builderVars, sectionRun, homeVars>>

\* what the panels of the builder do not touch
outsideBuilder == <<dialogVars, sidebarVars, sectionRun, homeVars>>

Row(id, order) == [id |-> id, order |-> order]
RowIds(rows) == {r.id : r \in rows}
Orders(rows) == {r.order : r \in rows}

CanCall == Len(calls) < MaxCalls

\* one more click on the sidebar
Click == nclicks < MaxClicks /\ nclicks' = nclicks + 1

\* a call with what the code after its await reads of the handler's render
Call(kind, pageId, ids, selected) ==
  [kind |-> kind, pageId |-> pageId, ids |-> ids, selectedPageId |-> selected,
   phase |-> "sent", order |-> 0]

\* the call in progress moves on, or is done
Progress(c) == <<c>> \o Tail(calls)
Pending(kind, phases) ==
  calls # << >> /\ Head(calls).kind = kind /\ Head(calls).phase \in phases

Without(list, id) == SelectSeq(list, LAMBDA p : p # id)
Position(list, id) == CHOOSE k \in 1..Len(list) : list[k] = id
Ids(list) == {list[k] : k \in 1..Len(list)}

\* findFirst ordered by order descending, then (lastPage?.order ?? -1) + 1
NewOrder(rows) ==
  IF rows = {} THEN 0
  ELSE (CHOOSE k \in Orders(rows) : \A j \in Orders(rows) : j <= k) + 1

\* handleCreatePage up to its await
HandleCreatePage ==
  /\ ~loading
  /\ CanCall
  /\ Click
  /\ nextId <= MaxPages
  /\ loading' = TRUE
  /\ calls' = Append(calls, Call("create", NoPage, ebookPages, NoPage))
  /\ UNCHANGED <<outsideSidebar, pageRows, nextId, ebookPages, pageOrder, selectedPageId,
                 sections>>

\* createPage on the server: the read of the last page
CreatePageFind ==
  /\ Pending("create", {"sent"})
  /\ LET c == Head(calls) IN
    /\ calls' = Progress([c EXCEPT !.phase = "found", !.order = NewOrder(pageRows)])
    /\ UNCHANGED <<outsideSidebar, nclicks, pageRows, nextId, ebookPages, pageOrder, selectedPageId,
                   loading, sections>>

\* createPage on the server: the insert
CreatePageInsert ==
  /\ Pending("create", {"found"})
  /\ LET c == Head(calls) IN
    /\ nextId <= MaxPages
    /\ pageRows' = pageRows \cup {Row(nextId, c.order)}
    /\ nextId' = nextId + 1
    /\ calls' = Progress([c EXCEPT !.phase = "returned", !.pageId = nextId])
    /\ UNCHANGED <<outsideSidebar, nclicks, ebookPages, pageOrder, selectedPageId, loading, sections>>

\* handleCreatePage after its await
CreatePageReturn ==
  /\ Pending("create", {"returned"})
  /\ LET c == Head(calls) IN
    /\ ebookPages' = Append(c.ids, c.pageId)
    /\ pageOrder' = [pageOrder EXCEPT ![c.pageId] = c.order]
    /\ selectedPageId' = c.pageId
    /\ loading' = FALSE
    /\ calls' = Tail(calls)
    /\ UNCHANGED <<outsideSidebar, nclicks, pageRows, nextId, sections>>

\* variant: the delete button works on the last page too
DeleteRefusedNever(list) == FALSE

\* handleDeletePage: "Cannot delete the last page"
DeleteRefused(list) == Len(list) = 1

\* handleDeletePage up to its await
HandleDeletePage ==
  \E k \in 1..Len(ebookPages) :
    /\ ~DeleteRefused(ebookPages)
    /\ CanCall
    /\ Click
    /\ calls' = Append(calls, Call("delete", ebookPages[k], ebookPages, selectedPageId))
    /\ UNCHANGED <<outsideSidebar, pageRows, nextId, ebookPages, pageOrder, selectedPageId,
                   loading, sections>>

\* deletePage on the server: prisma.page.delete throws when the row is gone
DeletePage ==
  /\ Pending("delete", {"sent"})
  /\ LET c == Head(calls) IN
    /\ IF c.pageId \in RowIds(pageRows)
       THEN /\ pageRows' = {r \in pageRows : r.id # c.pageId}
            /\ calls' = Progress([c EXCEPT !.phase = "returned"])
       ELSE /\ pageRows' = pageRows
            /\ calls' = Progress([c EXCEPT !.phase = "failed"])
    /\ UNCHANGED <<outsideSidebar, nclicks, nextId, ebookPages, pageOrder, selectedPageId, loading,
                   sections>>

\* handleDeletePage after its await, or its catch block
DeletePageReturn ==
  /\ Pending("delete", {"returned", "failed"})
  /\ LET c == Head(calls) IN
    /\ calls' = Tail(calls)
    /\ IF c.phase = "returned"
       THEN LET updatedPages == Without(c.ids, c.pageId) IN
            /\ ebookPages' = updatedPages
            /\ selectedPageId' =
                 IF c.selectedPageId = c.pageId
                 THEN (IF updatedPages = << >> THEN NoPage ELSE updatedPages[1])
                 ELSE selectedPageId
       ELSE UNCHANGED <<ebookPages, selectedPageId>>
    /\ UNCHANGED <<outsideSidebar, nclicks, pageRows, nextId, pageOrder, loading, sections>>

\* variant: the page is exchanged with the one after it
SwapWithNext(list, a, b) ==
  [k \in 1..Len(list) |->
     IF k = b /\ b < Len(list) THEN list[b + 1]
     ELSE IF k = b + 1 THEN list[b] ELSE list[k]]

\* [newPages[a], newPages[b]] = [newPages[b], newPages[a]], places from 1
Swap(list, a, b) ==
  [k \in 1..Len(list) |-> IF k = a THEN list[b] ELSE IF k = b THEN list[a] ELSE list[k]]

\* the list handleMoveUp(index) passes on, index counted from 0
MoveUp(list, index) == IF index = 0 THEN list ELSE Swap(list, index, index + 1)

\* the list handleMoveDown(index) passes on, index counted from 0
MoveDown(list, index) ==
  IF index = Len(list) - 1 THEN list ELSE Swap(list, index + 1, index + 2)

\* newPages.forEach((page, i) => { page.order = i }): the page objects are
\* those of the old list, so every list that holds them sees the new order
Renumber(list, orders) ==
  [id \in PageIds |-> IF id \in Ids(list) THEN Position(list, id) - 1 ELSE orders[id]]

\* handleMoveUp and handleMoveDown past their early return
Move(newPages) ==
  /\ CanCall
  /\ Click
  /\ pageOrder' = Renumber(newPages, pageOrder)
  /\ ebookPages' = newPages
  /\ calls' = Append(calls, Call("reorder", NoPage, newPages, NoPage))
  /\ UNCHANGED <<outsideSidebar, pageRows, nextId, selectedPageId, loading, sections>>

HandleMoveUp ==
  \E index \in 0..(Len(ebookPages) - 1) :
    /\ index # 0
    /\ Move(MoveUp(ebookPages, index))

HandleMoveDown ==
  \E index \in 0..(Len(ebookPages) - 1) :
    /\ index # Len(ebookPages) - 1
    /\ Move(MoveDown(ebookPages, index))

\* reorderPages on the server: one transaction of updates, which fails as a
\* whole when one of the rows is gone
ReorderPages ==
  /\ Pending("reorder", {"sent"})
  /\ LET c == Head(calls) IN
    /\ calls' = Tail(calls)
    /\ pageRows' =
         IF Ids(c.ids) \subseteq RowIds(pageRows)
         THEN {IF r.id \in Ids(c.ids) THEN Row(r.id, Position(c.ids, r.id) - 1) ELSE r :
                 r \in pageRows}
         ELSE pageRows
    /\ UNCHANGED <<outsideSidebar, nclicks, nextId, ebookPages, pageOrder, selectedPageId, loading,
                   sections>>

\* a click on a page of the list
SelectPage ==
  \E k \in 1..Len(ebookPages) :
    /\ selectedPageId # ebookPages[k]
    /\ Click
    /\ selectedPageId' = ebookPages[k]
    /\ UNCHANGED <<outsideSidebar, pageRows, nextId, ebookPages, pageOrder, loading, calls,
                   sections>>

\* a generation run as the page table sees it: the outline endpoint deletes
\* the pages of the ebook, then one section-content call per outline entry
\* inserts a page with order = sectionIndex
SectionIndexes(n) == [k \in 1..n |-> k - 1]

GenerateOutline ==
  /\ sections = << >>
  /\ \E n \in 1..MaxLen : sections' = SectionIndexes(n)
  /\ pageRows' = DeleteAllPages(pageRows)
  /\ UNCHANGED <<outsideSidebar, nclicks, nextId, ebookPages, pageOrder, selectedPageId, loading, calls>>

GenerateContent ==
  /\ sections # << >>
  /\ nextId <= MaxPages
  /\ pageRows' = pageRows \cup {Row(nextId, Head(sections))}
  /\ nextId' = nextId + 1
  /\ sections' = Tail(sections)
  /\ UNCHANGED <<outsideSidebar, nclicks, ebookPages, pageOrder, selectedPageId, loading, calls>>

NextSidebar ==
  \/ HandleCreatePage
  \/ CreatePageFind
  \/ CreatePageInsert
  \/ CreatePageReturn
  \/ HandleDeletePage
  \/ DeletePage
  \/ DeletePageReturn
  \/ HandleMoveUp
  \/ HandleMoveDown
  \/ ReorderPages
  \/ SelectPage

SpecSidebar == Init /\ [][NextSidebar]_vars

\* the sidebar while generation runs write to the same ebook
NextPages ==
  \/ NextSidebar
  \/ GenerateOutline
  \/ GenerateContent

SpecPages == Init /\ [][NextPages]_vars

SidebarTypeOK ==
  /\ RowIds(pageRows) \subseteq PageIds
  /\ nextId \in 2..(MaxPages + 1)
  /\ Ids(ebookPages) \subseteq PageIds
  /\ selectedPageId \in PageIds \cup {NoPage}
  /\ loading \in BOOLEAN
  /\ Len(calls) <= MaxCalls
  /\ nclicks \in 0..MaxClicks

\* C24: the order values of the pages of one ebook are pairwise distinct in
\* every reachable state, whatever createPage, deletePage, reorderPages and
\* section-content calls have run, overlapping or not
C24_OrdersDistinct ==
  \A r1, r2 \in pageRows : r1.order = r2.order => r1.id = r2.id

\* C25: the sidebar never deletes the last page: after any sequence of
\* sidebar create, delete and move operations, deletes started before an
\* earlier delete has finished included, the local page list and the
\* persisted page set both hold at least one page
C25_LastPageKept == ebookPages # << >> /\ pageRows # {}

\* C25, its parts the code keeps: no deletePage call is issued from a list
\* of exactly one page, the local list never becomes empty, and a failed
\* deletePage leaves the local list and the selection as they were
C25_LocalListKept ==
  /\ ebookPages # << >>
  /\ \A k \in 1..Len(calls) : calls[k].kind = "delete" => Len(calls[k].ids) > 1

C25_FailedDeleteChangesNothing ==
  [][Pending("delete", {"failed"}) /\ calls' = Tail(calls)
       => ebookPages' = ebookPages /\ selectedPageId' = selectedPageId]_vars

\* the lists a sidebar render can hold, and the places in them
Lists == {ebookPages} \cup {calls[k].ids : k \in 1..Len(calls)}
Places(list) == 0..(Len(list) - 1)

\* C26: handleMoveUp(index) and handleMoveDown(index) exchange the page at
\* index with its neighbour and leave every other place and the set of ids
\* as they were; at the first place handleMoveUp, and at the last place
\* handleMoveDown, change nothing; handleMoveUp(i) followed by
\* handleMoveDown(i-1) gives the original list back
C26_MoveSwapsNeighbours ==
  \A list \in Lists : \A index \in Places(list) :
    LET up == MoveUp(list, index)
        down == MoveDown(list, index)
    IN /\ Ids(up) = Ids(list) /\ Ids(down) = Ids(list)
       /\ Len(up) = Len(list) /\ Len(down) = Len(list)
       /\ index = 0 => up = list
       /\ index = Len(list) - 1 => down = list
       /\ index > 0 =>
            /\ up[index] = list[index + 1] /\ up[index + 1] = list[index]
            /\ \A k \in 1..Len(list) : k \notin {index, index + 1} => up[k] = list[k]
            /\ MoveDown(up, index - 1) = list
       /\ index < Len(list) - 1 =>
            /\ down[index + 1] = list[index + 2] /\ down[index + 2] = list[index + 1]
            /\ \A k \in 1..Len(list) : k \notin {index + 1, index + 2} => down[k] = list[k]

\* C26: a move that passes its early return leaves every page's order equal
\* to its place in the new list, sends that list to reorderPages and changes
\* neither the selection nor the page table; no other click sends a
\* reorderPages call
C26_MoveRenumbersAndSends ==
  [][ebookPages' # ebookPages /\ Len(calls') > Len(calls)
       => /\ \E index \in Places(ebookPages) :
               \/ index # 0 /\ ebookPages' = MoveUp(ebookPages, index)
               \/ index # Len(ebookPages) - 1 /\ ebookPages' = MoveDown(ebookPages, index)
          /\ \A k \in 1..Len(ebookPages') : pageOrder'[ebookPages'[k]] = k - 1
          /\ calls'[Len(calls')].kind = "reorder"
          /\ calls'[Len(calls')].ids = ebookPages'
          /\ Ids(ebookPages') = Ids(ebookPages)
          /\ pageRows' = pageRows]_vars

\* C26: reorderPages gives every page of the list it received the order of
\* its place in that list
C26_ReorderWritesPlaces ==
  [][Pending("reorder", {"sent"}) /\ pageRows' # pageRows
       => \A r \in pageRows' :
            r.id \in Ids(Head(calls).ids) => r.order = Position(Head(calls).ids, r.id) - 1]_vars

\* a list of three pages has been moved and reorderPages has written it
C26_Witness ==
  /\ Len(ebookPages) = 3
  /\ ebookPages # <<1, 2, 3>>
  /\ calls = << >>
  /\ \A r \in pageRows : r.id \in Ids(ebookPages) /\ r.order = Position(ebookPages, r.id) - 1

\* the order fields of the pages of the current list after handleMoveUp(index)
\* followed by handleMoveDown(index - 1)
UpThenDownOrders(index) ==
  LET up == MoveUp(ebookPages, index)
  IN Renumber(MoveDown(up, index - 1), Renumber(up, pageOrder))

\* C26 as stated: handleMoveUp(i) followed by handleMoveDown(i-1) restores
\* the original list, the pages with their fields
C26_UpThenDownRestoresList ==
  \A index \in Places(ebookPages) :
    index > 0 =>
      /\ MoveDown(MoveUp(ebookPages, index), index - 1) = ebookPages
      /\ \A id \in Ids(ebookPages) : UpThenDownOrders(index)[id] = pageOrder[id]

\* C26, amended: the round trip restores the sequence of pages, and their
\* order fields when these were the places 0..n-1 before
C26_UpThenDownRestoresPlaces ==
  \A index \in Places(ebookPages) :
    index > 0 /\ (\A k \in 1..Len(ebookPages) : pageOrder[ebookPages[k]] = k - 1) =>
      \A id \in Ids(ebookPages) : UpThenDownOrders(index)[id] = pageOrder[id]

\* C26, amended, in one formula
C26_Moves ==
  /\ [](C26_MoveSwapsNeighbours /\ C26_UpThenDownRestoresPlaces)
  /\ C26_MoveRenumbersAndSends
  /\ C26_ReorderWritesPlaces

\* ------------------------------------------------------------ ebook builder
\* The panels of EbookBuilder and handleImageSelect.  Each handler is one
\* browser task; ImagePanel and SettingsPanel are rendered only while their
\* panel is open, so their callbacks can only run then.

ImageUrls == {"a.png", "b.png"}

\* customStyles a page can have got from the layout panel before
BrandingText ==
  [set |-> TRUE, enabled |-> FALSE, type |-> "text", logoUrl |-> None,
   position |-> "bottom-right"]
StyledPage == [imageUrl |-> None, customStyles |-> [set |-> TRUE, branding |-> BrandingText]]

\* the builder over an ebook of two pages; the selection is one of them or,
\* after the page it named has been deleted, none of them
InitBuilder ==
  /\ InitDialog
  /\ InitPanels
  /\ pageRows = {Row(1, 0), Row(2, 1)}
  /\ nextId = 3
  /\ ebookPages = <<1, 2>>
  /\ pageOrder = [id \in PageIds |-> IF id = 2 THEN 1 ELSE 0]
  /\ selectedPageId \in 1..3
  /\ loading = FALSE
  /\ calls = << >>
  /\ sections = << >>
  /\ nclicks = 0
  /\ pageData \in [PageIds -> {PlainPage, StyledPage}]
  /\ sectionRun = NoSectionRun
  /\ InitHome
  /\ pageData[3] = PlainPage

\* const selectedPage = ebook.pages.find((p) => p.id === selectedPageId)
HasSelectedPage == selectedPageId \in Ids(ebookPages)

\* { ...p, ...updates }
Merge(p, updates) ==
  [f \in DOMAIN p |-> IF f \in DOMAIN updates THEN updates[f] ELSE p[f]]

\* handlePageUpdate(updates)
HandlePageUpdate(data, updates) ==
  [id \in PageIds |->
     IF id \in Ids(ebookPages) /\ id = selectedPageId THEN Merge(data[id], updates)
     ELSE data[id]]

\* the branding handleImageSelect writes in logo selection mode
LogoStyles(currentStyles, url) ==
  LET old == currentStyles.branding
      has == old.set
  IN [set |-> TRUE,
      branding |->
        [set |-> TRUE,
         enabled |-> IF has THEN old.enabled ELSE TRUE,
         type |-> IF has THEN old.type ELSE "logo",
         logoUrl |-> url,
         position |-> IF has THEN old.position ELSE "bottom-left"]]

\* variant: the theme panel opens next to the image panel
OpenSettingsBeside(type) ==
  /\ settingsPanelType' = type
  /\ settingsPanelOpen' = TRUE
  /\ UNCHANGED <<imagePanelOpen, logoSelectionMode, pageData, openedBy>>

\* handleOpenThemePanel and handleOpenLayoutPanel
OpenSettings(type) ==
  /\ imagePanelOpen' = FALSE
  /\ settingsPanelType' = type
  /\ settingsPanelOpen' = TRUE
  /\ UNCHANGED <<logoSelectionMode, pageData, openedBy>>

HandleOpenThemePanel ==
  /\ OpenSettings("theme")
  /\ UNCHANGED outsideBuilder

HandleOpenLayoutPanel ==
  /\ OpenSettings("layout")
  /\ UNCHANGED outsideBuilder

\* handleOpenLogoPanel, the callback of the settings panel
HandleOpenLogoPanel ==
  /\ settingsPanelOpen
  /\ logoSelectionMode' = TRUE
  /\ settingsPanelOpen' = FALSE
  /\ imagePanelOpen' = TRUE
  /\ openedBy' = "handleOpenLogoPanel"
  /\ UNCHANGED <<outsideBuilder, settingsPanelType, pageData>>

\* handleOpenImagePanel, the callback of the page previews
HandleOpenImagePanel ==
  /\ logoSelectionMode' = FALSE
  /\ settingsPanelOpen' = FALSE
  /\ imagePanelOpen' = TRUE
  /\ openedBy' = "handleOpenImagePanel"
  /\ UNCHANGED <<outsideBuilder, settingsPanelType, pageData>>

\* variant: the url goes to imageUrl whatever the mode
SelectedAsImage(url) ==
  /\ pageData' = HandlePageUpdate(pageData, [imageUrl |-> url])
  /\ logoSelectionMode' = FALSE

\* the two branches of handleImageSelect
Selected(url) ==
  IF logoSelectionMode
  THEN /\ pageData' =
            IF HasSelectedPage
            THEN HandlePageUpdate(pageData,
                   [customStyles |-> LogoStyles(pageData[selectedPageId].customStyles, url)])
            ELSE pageData
       /\ logoSelectionMode' = FALSE
  ELSE /\ pageData' = HandlePageUpdate(pageData, [imageUrl |-> url])
       /\ UNCHANGED logoSelectionMode

\* handleImageSelect(url), the callback of the image panel
HandleImageSelect ==
  /\ imagePanelOpen
  /\ \E url \in ImageUrls : Selected(url)
  /\ imagePanelOpen' = FALSE
  /\ UNCHANGED <<outsideBuilder, settingsPanelOpen, settingsPanelType, openedBy>>

\* onClose of the image panel
CloseImagePanel ==
  /\ imagePanelOpen
  /\ imagePanelOpen' = FALSE
  /\ logoSelectionMode' = FALSE
  /\ UNCHANGED <<outsideBuilder, settingsPanelOpen, settingsPanelType, pageData,
                 openedBy>>

\* onClose of the settings panel
CloseSettingsPanel ==
  /\ settingsPanelOpen
  /\ settingsPanelOpen' = FALSE
  /\ UNCHANGED <<outsideBuilder, imagePanelOpen, settingsPanelType,
                 logoSelectionMode, pageData, openedBy>>

\* a click on a page preview
PreviewClick ==
  \E k \in 1..Len(ebookPages) :
    /\ selectedPageId # ebookPages[k]
    /\ selectedPageId' = ebookPages[k]
    /\ UNCHANGED <<dialogVars, builderVars, sectionRun, homeVars, pageRows, nextId,
                   ebookPages, pageOrder,
                   loading, calls, sections, nclicks>>

NextBuilder ==
  \/ HandleOpenThemePanel
  \/ HandleOpenLayoutPanel
  \/ HandleOpenLogoPanel
  \/ HandleOpenImagePanel
  \/ HandleImageSelect
  \/ CloseImagePanel
  \/ CloseSettingsPanel
  \/ PreviewClick

SpecBuilder == InitBuilder /\ [][NextBuilder]_vars

\* C27: the image panel and the settings panel of EbookBuilder are never
\* open at the same time, whatever handlers and close callbacks have run
C27_OnePanelOpen == ~(imagePanelOpen /\ settingsPanelOpen)

\* the image panel has taken the place of the settings panel, opened from it
C27_Witness ==
  imagePanelOpen /\ ~settingsPanelOpen /\ settingsPanelType = "layout" /\ logoSelectionMode

\* the image panel was opened last by handleOpenLogoPanel
OpenedForLogo == openedBy = "handleOpenLogoPanel"

\* what handleImageSelect(url) is to do to the selected page
LogoWritten(url) ==
  /\ pageData'[selectedPageId].customStyles.branding.logoUrl = url
  /\ pageData'[selectedPageId].imageUrl = pageData[selectedPageId].imageUrl
ImageWritten(url) ==
  /\ pageData'[selectedPageId].imageUrl = url
  /\ pageData'[selectedPageId].customStyles = pageData[selectedPageId].customStyles

\* C28: while the image panel is open, handleImageSelect(url) can run for
\* every url, and with a selected page it writes url to the logoUrl of the
\* page's branding when the panel was opened last by handleOpenLogoPanel,
\* and to the page's imageUrl otherwise
C28_SelectWrites ==
  imagePanelOpen /\ HasSelectedPage =>
    \A url \in ImageUrls :
      ENABLED (HandleImageSelect /\
                 IF OpenedForLogo THEN LogoWritten(url) ELSE ImageWritten(url))

\* C28: a step that changes a page while the image panel is open changes the
\* selected page only: its logoUrl, the imageUrl staying, when the panel was
\* opened last by handleOpenLogoPanel, and its imageUrl, the customStyles
\* staying, otherwise; and every step that closes the image panel without
\* opening the settings panel leaves logoSelectionMode false
C28_SelectFrame ==
  [][/\ imagePanelOpen /\ pageData' # pageData =>
          /\ HasSelectedPage
          /\ \A id \in PageIds : id # selectedPageId => pageData'[id] = pageData[id]
          /\ \E url \in ImageUrls :
               IF OpenedForLogo THEN LogoWritten(url) ELSE ImageWritten(url)
          /\ ~imagePanelOpen' /\ ~logoSelectionMode'
     /\ imagePanelOpen /\ ~imagePanelOpen' /\ ~settingsPanelOpen' => ~logoSelectionMode'
     /\ ~imagePanelOpen => pageData' = pageData]_vars

\* C28 in one formula
C28_ImageSelect == []C28_SelectWrites /\ C28_SelectFrame

\* the panel was opened for a logo after it had been opened for an image,
\* and the page that already had an image has got a logo
C28_Witness ==
  /\ ~imagePanelOpen /\ ~logoSelectionMode
  /\ OpenedForLogo
  /\ HasSelectedPage
  /\ pageData[selectedPageId].imageUrl = "a.png"
  /\ pageData[selectedPageId].customStyles.branding.logoUrl = "b.png"
  /\ \E id \in Ids(ebookPages) : id # selectedPageId /\ pageData[id].imageUrl = None

\* the selection names a page the list has not got any more
StaleSelection == Len(ebookPages) > 0 /\ ~HasSelectedPage /\ calls = << >>

\* --------------------------------------------------------- one run by itself
\* The section-content calls of one run whose every call succeeds, as
\* handleGenerate sends them: sectionIndex 0..N-1 in order, each answered
\* before the next is sent.

outsideRun == <<dialogVars, sidebarVars, builderVars, homeVars>>

\* the run has just got its outline of N entries
InitSections ==
  /\ InitDialog
  /\ InitSidebar
  /\ InitPanels
  /\ pageData = [id \in PageIds |-> PlainPage]
  /\ InitHome
  /\ \E n \in 1..MaxSections : sectionRun = [NoSectionRun EXCEPT !.length = n]

\* the request handleGenerate sends for section i
SectionRequest(i) ==
  [run |-> 1, body |-> [sectionTitle |-> <<"t">>, sectionIndex |-> i]]

\* one iteration of the loop of handleGenerate with the endpoint's insert
SectionContent ==
  /\ sectionRun.next < sectionRun.length
  /\ sectionRun' =
       [sectionRun EXCEPT !.next = @ + 1,
                          !.pages = @ \cup {NewPage(SectionRequest(sectionRun.next))}]
  /\ UNCHANGED outsideRun

SpecSections == InitSections /\ [][SectionContent]_vars

\* C29: the section-content endpoint picks the template by sectionIndex
\* alone: cover-page for 0, image-top for every other multiple of 4 and
\* text-only for the rest; the pages of a completed run over an outline of
\* N >= 1 entries hold exactly one cover-page page, the one with order 0
C29_TemplateByIndex ==
  /\ \A p \in sectionRun.pages :
       p.template = (IF p.order = 0 THEN "cover-page"
                     ELSE IF \E k \in 1..MaxSections : p.order = 4 * k THEN "image-top"
                     ELSE "text-only")
  /\ sectionRun.next = sectionRun.length /\ sectionRun.length >= 1 =>
       /\ Cardinality(sectionRun.pages) = sectionRun.length
       /\ \E p \in sectionRun.pages :
            /\ p.template = "cover-page" /\ p.order = 0
            /\ \A q \in sectionRun.pages : q.template = "cover-page" => q = p

\* a run over nine sections has completed: its pages 4 and 8 are image-top
C29_Witness ==
  /\ sectionRun.length = 9 /\ sectionRun.next = 9
  /\ {p.order : p \in {q \in sectionRun.pages : q.template = "image-top"}} = {4, 8}

\* ---------------------------------------------------------------- Home
\* Home awaits getCurrentEbook on every render of the page; renders of
\* different requests run concurrently on the server, each call step by
\* step at its awaits.  The builder is not mounted before a call returns.

outsideHome == <<dialogVars, sidebarVars, builderVars, sectionRun>>

\* a new database
InitFresh ==
  /\ InitDialog
  /\ InitSidebar
  /\ InitPanels
  /\ pageData = [id \in PageIds |-> PlainPage]
  /\ sectionRun = NoSectionRun
  /\ ebookRows = {}
  /\ themeRows = {}
  /\ gets = [c \in Gets |-> NoGet]

\* prisma.ebook.findFirst with no orderBy: one of the rows, or null
FindFirstEbook(c) ==
  /\ gets[c].pc = "unstarted"
  /\ \/ /\ ebookRows = {}
        /\ gets' = [gets EXCEPT ![c] = [pc |-> "missing", ebook |-> NoEbook]]
     \/ \E e \in ebookRows :
          gets' = [gets EXCEPT ![c] = [pc |-> "returned", ebook |-> e.id]]
  /\ UNCHANGED <<outsideHome, ebookRows, themeRows>>

\* prisma.theme.upsert where name = "Modern"
UpsertTheme(c) ==
  /\ gets[c].pc = "missing"
  /\ themeRows' = themeRows \cup {"Modern"}
  /\ gets' = [gets EXCEPT ![c].pc = "themed"]
  /\ UNCHANGED <<outsideHome, ebookRows>>

\* prisma.ebook.create with the cover page, and the return
CreateEbook(c) ==
  /\ gets[c].pc = "themed"
  /\ ebookRows' = ebookRows \cup {DefaultEbook(c)}
  /\ gets' = [gets EXCEPT ![c] = [pc |-> "returned", ebook |-> c]]
  /\ UNCHANGED <<outsideHome, themeRows>>

NextHome == \E c \in Gets : FindFirstEbook(c) \/ UpsertTheme(c) \/ CreateEbook(c)

SpecHome == InitFresh /\ [][NextHome]_vars

Returned == {c \in Gets : gets[c].pc = "returned"}

\* C30: after any number of getCurrentEbook calls, overlapping calls
\* included, at most one ebook exists and every call has returned that ebook
C30_OneEbook ==
  /\ Cardinality(ebookRows) <= 1
  /\ \A c1, c2 \in Returned : gets[c1].ebook = gets[c2].ebook

\* C30, the parts the code keeps: a call creates an ebook only when its
\* findFirst found none, and the ebook it creates has theme Modern and one
\* page, a cover-page of order 0
C30_CreatesDefaultWhenNoneFound ==
  [][\A c \in Gets :
       ebookRows' # ebookRows /\ gets'[c] # gets[c] =>
         /\ gets[c].pc = "themed"
         /\ \E e \in ebookRows' \ ebookRows :
              /\ ebookRows' = ebookRows \cup {e}
              /\ e.theme = "Modern" /\ "Modern" \in themeRows
              /\ \E p \in e.pages :
                   e.pages = {p} /\ p.template = "cover-page" /\ p.order = 0]_vars

====
